---- MODULE Spec2Model ----
(***************************************************************************)
(* MudraDesk: the access-control and account-lifecycle logic of            *)
(* backend/app.py, backend/auth.py and backend/supabase_client.py.         *)
(*                                                                         *)
(* Strings the code inspects character by character (emails, passwords)   *)
(* are sequences of one-character strings.  The credential store is the   *)
(* table `users`; every call to it may fail, as a network call may.       *)
(***************************************************************************)
EXTENDS Integers, Sequences, FiniteSets, TLC

\* ------------------------------------------------------------------ bounds
\* Number of records the store ever receives through register (ids are fresh).
MaxRegistrations == 1

\* The passwords given to validate_password_strength: up to MaxPad letters
\* followed by up to MaxCoreLen characters of every class.
MaxPad == 8
MaxCoreLen == 3

\* Number of records the store receives from registrations that run side
\* by side.
MaxRaceRegistrations == 2

\* The browsers holding a session cookie.
Clients == {"c1", "c2"}

\* ------------------------------------------------------------------ text
UpperChars == {"A", "B", "S", "X"}
LowerChars == {"a", "b", "c", "s", "x"}
DigitChars == {"0", "1", "2", "3", "4", "5", "6", "7", "8", "9"}
\* The characters of the class in validate_password_strength's last rule.
SpecialChars ==
    {"!", "@", "#", "$", "%", "^", "&", "*", "(", ")", ",", ".", "?", "\"",
     ":", "{", "}", "|", "<", ">", "_", "-", "+", "=", "[", "]", "\\", "/",
     "~", "`", "'", ";", " "}

\* str.lower() on one character.
LowerChar(ch) ==
    CASE ch = "A" -> "a"
      [] ch = "B" -> "b"
      [] ch = "S" -> "s"
      [] ch = "X" -> "x"
      [] OTHER -> ch

\* str.lower()
Lower(s) == [i \in 1..Len(s) |-> LowerChar(s[i])]

RECURSIVE LStrip(_)
LStrip(s) == IF s # <<>> /\ Head(s) = " " THEN LStrip(Tail(s)) ELSE s

RECURSIVE RStrip(_)
RStrip(s) ==
    IF s # <<>> /\ s[Len(s)] = " " THEN RStrip(SubSeq(s, 1, Len(s) - 1)) ELSE s

\* str.strip()
Strip(s) == RStrip(LStrip(s))

\* request.form.get('email', '').strip().lower()
NormalizeEmail(raw) == Lower(Strip(raw))

\* re.search of a one-character class
HasCharIn(s, class) == \E i \in 1..Len(s) : s[i] \in class

MinPasswordLen == 8

ErrLength == "Password must be at least 8 characters long."
ErrUpper == "Password must contain at least one uppercase letter."
ErrDigit == "Password must contain at least one number."
ErrSpecial == "Password must contain at least one special character (e.g. @, #, !, $)."

\* A plausible slip: the rules are chained with elif, so that only the first
\* unmet rule is reported.
validate_password_strength_first_error(password) ==
    IF Len(password) < MinPasswordLen THEN <<ErrLength>>
    ELSE IF ~HasCharIn(password, UpperChars) THEN <<ErrUpper>>
    ELSE IF ~HasCharIn(password, DigitChars) THEN <<ErrDigit>>
    ELSE IF ~HasCharIn(password, SpecialChars) THEN <<ErrSpecial>>
    ELSE <<>>

validate_password_strength(password) ==
    LET e1 == IF Len(password) < MinPasswordLen THEN <<ErrLength>> ELSE <<>>
        e2 == IF ~HasCharIn(password, UpperChars) THEN <<ErrUpper>> ELSE <<>>
        e3 == IF ~HasCharIn(password, DigitChars) THEN <<ErrDigit>> ELSE <<>>
        e4 == IF ~HasCharIn(password, SpecialChars) THEN <<ErrSpecial>> ELSE <<>>
    IN  e1 \o e2 \o e3 \o e4

\* werkzeug.security: the stored hash is not the password; it verifies
\* exactly the password it was generated from.
generate_password_hash(password) == <<"pbkdf2:sha256">> \o password

check_password_hash(pwhash, password) ==
    pwhash = generate_password_hash(password)

\* ------------------------------------------------------------------ state
VARIABLES
    users,      \* the Supabase table 'users': id -> record
    issued,     \* how many identifiers of secrets.token_hex(16) reached the store
    enabled,    \* _supabase_enabled: the store's credentials are configured
    env,        \* os.environ: ADMIN_EMAIL and ADMIN_PASSWORD (<<>> when unset)
    session,    \* each client's Flask session (a dict)
    resp,       \* the response being returned to a client, or Idle
    checked,    \* a call of validate_password_strength: its argument and result
    inflight,   \* each client's request that is between two store calls, or NoRequest
    flips       \* per account: parity of the toggle_user_active writes done on it

vars == <<users, issued, enabled, env, session, resp, checked, inflight, flips>>

\* secrets.token_hex(16), the n-th value produced
UserId(n) == <<"user", n>>
\* 'superadmin_' + secrets.token_hex(4)
SuperAdminId(k) == <<"superadmin_", k>>
NoId == <<"none", 0>>
\* None in the column approved_at
NoTime == <<>>

\* Python's None where a user record is expected.
NoUser == [id |-> NoId]
IsNone(user) == user.id = NoId

\* session.clear()
EmptySession == [k \in {} |-> TRUE]
\* session[key] = value
SetKey(sess, key, value) ==
    [k \in DOMAIN sess \cup {key} |-> IF k = key THEN value ELSE sess[k]]

\* A store call succeeds only when the client can be built (get_supabase)
\* and the network call returns.
CallResults == IF enabled THEN BOOLEAN ELSE {FALSE}

\* ------------------------------------------------------------------ store
get_user_by_id(tbl, user_id, ok) ==
    IF ok /\ user_id \in DOMAIN tbl THEN tbl[user_id] ELSE NoUser

\* .eq('email', email).single(): anything but exactly one row raises.
get_user_by_email(tbl, email, ok) ==
    LET rows == {i \in DOMAIN tbl : tbl[i].email = email}
    IN  IF ok /\ Cardinality(rows) = 1
        THEN tbl[CHOOSE i \in rows : TRUE]
        ELSE NoUser

\* A plausible slip: the exception is swallowed, as delete_user_profile does.
create_user_profile_swallows_error(tbl, user_id, data, ok) ==
    IF ok
    THEN [raised |-> FALSE,
          tbl |-> [i \in DOMAIN tbl \cup {user_id} |->
                     IF i = user_id THEN [data EXCEPT !.id = user_id] ELSE tbl[i]]]
    ELSE [raised |-> FALSE, tbl |-> tbl]

\* A plausible slip: the table is taken to have a unique constraint on email.
create_user_profile_unique_email(tbl, user_id, data, ok) ==
    IF ok /\ \A i \in DOMAIN tbl : tbl[i].email # data.email
    THEN [raised |-> FALSE,
          tbl |-> [i \in DOMAIN tbl \cup {user_id} |->
                     IF i = user_id THEN [data EXCEPT !.id = user_id] ELSE tbl[i]]]
    ELSE [raised |-> TRUE, tbl |-> tbl]

\* insert: the new table, and whether RuntimeError was raised.
create_user_profile(tbl, user_id, data, ok) ==
    IF ok
    THEN [raised |-> FALSE,
          tbl |-> [i \in DOMAIN tbl \cup {user_id} |->
                     IF i = user_id THEN [data EXCEPT !.id = user_id] ELSE tbl[i]]]
    ELSE [raised |-> TRUE, tbl |-> tbl]

\* update(data).eq('id', user_id): rows that do not exist are not an error.
update_user_profile(tbl, user_id, data, ok) ==
    IF ok
    THEN [raised |-> FALSE,
          tbl |-> [i \in DOMAIN tbl |->
                     IF i = user_id
                     THEN [f \in DOMAIN tbl[i] |->
                             IF f \in DOMAIN data THEN data[f] ELSE tbl[i][f]]
                     ELSE tbl[i]]]
    ELSE [raised |-> TRUE, tbl |-> tbl]

\* delete().eq('id', user_id): the exception is swallowed into False.
delete_user_profile(tbl, user_id, ok) ==
    IF ok
    THEN [deleted |-> TRUE, tbl |-> [i \in DOMAIN tbl \ {user_id} |-> tbl[i]]]
    ELSE [deleted |-> FALSE, tbl |-> tbl]

\* list_all_users(): the non-admin records, [] on failure.
list_all_users(tbl, ok) ==
    IF ok THEN {tbl[i] : i \in {j \in DOMAIN tbl : ~tbl[j].is_admin}} ELSE {}

\* app.py's wrapper: None when the store is not enabled or the call fails.
get_user_by_email_any(tbl, email, ok) ==
    IF ~enabled THEN NoUser ELSE get_user_by_email(tbl, email, ok)

\* ------------------------------------------------------------------ responses
Redirect(endpoint, flashes) == [kind |-> "redirect", to |-> endpoint, flash |-> flashes]
Render(template, flashes) == [kind |-> "render", to |-> template, flash |-> flashes]
Json(status) == [kind |-> "json", to |-> status, flash |-> <<>>]
\* an exception no handler catches: Flask answers 500
Unhandled == [kind |-> "error", to |-> "500", flash |-> <<>>]

\* No request is being answered.
Idle == [c |-> "", op |-> "", ran |-> FALSE, out |-> Render("", <<>>)]

\* ------------------------------------------------------------------ auth.py
get_current_user(sess, tbl, ok) ==
    IF "user_id" \notin DOMAIN sess
    THEN NoUser
    ELSE get_user_by_id(tbl, sess["user_id"], ok)

\* A plausible slip: the deactivated account is turned away but keeps its
\* session.
login_required_keeps_session(sess, tbl, ok) ==
    LET user == get_current_user(sess, tbl, ok)
    IN  IF "user_id" \notin DOMAIN sess
        THEN [run |-> FALSE, session |-> sess,
              out |-> Redirect("login", <<"Please log in to access this page.">>)]
        ELSE IF IsNone(user)
        THEN [run |-> FALSE, session |-> EmptySession,
              out |-> Redirect("login", <<"Session expired. Please log in again.">>)]
        ELSE IF ~user.is_approved /\ ~user.is_admin
        THEN [run |-> FALSE, session |-> sess,
              out |-> Redirect("pending_approval", <<>>)]
        ELSE IF ~user.is_active
        THEN [run |-> FALSE, session |-> sess,
              out |-> Redirect("login", <<"Your account has been deactivated.">>)]
        ELSE [run |-> TRUE, session |-> sess, out |-> Render("", <<>>)]

\* A plausible slip: the approval test forgets that admins are exempt.
login_required_no_admin_exemption(sess, tbl, ok) ==
    LET user == get_current_user(sess, tbl, ok)
    IN  IF "user_id" \notin DOMAIN sess
        THEN [run |-> FALSE, session |-> sess,
              out |-> Redirect("login", <<"Please log in to access this page.">>)]
        ELSE IF IsNone(user)
        THEN [run |-> FALSE, session |-> EmptySession,
              out |-> Redirect("login", <<"Session expired. Please log in again.">>)]
        ELSE IF ~user.is_approved
        THEN [run |-> FALSE, session |-> sess,
              out |-> Redirect("pending_approval", <<>>)]
        ELSE IF ~user.is_active
        THEN [run |-> FALSE, session |-> EmptySession,
              out |-> Redirect("login", <<"Your account has been deactivated.">>)]
        ELSE [run |-> TRUE, session |-> sess, out |-> Render("", <<>>)]

\* A plausible slip: the is_active test is missing.
login_required_ignores_active(sess, tbl, ok) ==
    LET user == get_current_user(sess, tbl, ok)
    IN  IF "user_id" \notin DOMAIN sess
        THEN [run |-> FALSE, session |-> sess,
              out |-> Redirect("login", <<"Please log in to access this page.">>)]
        ELSE IF IsNone(user)
        THEN [run |-> FALSE, session |-> EmptySession,
              out |-> Redirect("login", <<"Session expired. Please log in again.">>)]
        ELSE IF ~user.is_approved /\ ~user.is_admin
        THEN [run |-> FALSE, session |-> sess,
              out |-> Redirect("pending_approval", <<>>)]
        ELSE [run |-> TRUE, session |-> sess, out |-> Render("", <<>>)]

\* The decorator's decision: whether the wrapped handler runs, and otherwise
\* the session it leaves and the response it returns.
login_required(sess, tbl, ok) ==
    LET user == get_current_user(sess, tbl, ok)
    IN  IF "user_id" \notin DOMAIN sess
        THEN [run |-> FALSE, session |-> sess,
              out |-> Redirect("login", <<"Please log in to access this page.">>)]
        ELSE IF IsNone(user)
        THEN [run |-> FALSE, session |-> EmptySession,
              out |-> Redirect("login", <<"Session expired. Please log in again.">>)]
        ELSE IF ~user.is_approved /\ ~user.is_admin
        THEN [run |-> FALSE, session |-> sess,
              out |-> Redirect("pending_approval", <<>>)]
        ELSE IF ~user.is_active
        THEN [run |-> FALSE, session |-> EmptySession,
              out |-> Redirect("login", <<"Your account has been deactivated.">>)]
        ELSE [run |-> TRUE, session |-> sess, out |-> Render("", <<>>)]

\* A plausible slip: the admin flag is read from the session cookie.
admin_required_trusts_session(sess, tbl, ok) ==
    IF "user_id" \notin DOMAIN sess
    THEN [run |-> FALSE, session |-> sess,
          out |-> Redirect("login", <<"Please log in to access this page.">>)]
    ELSE IF ~("is_admin" \in DOMAIN sess /\ sess["is_admin"])
    THEN [run |-> FALSE, session |-> sess,
          out |-> Redirect("index", <<"Admin access required.">>)]
    ELSE [run |-> TRUE, session |-> sess, out |-> Render("", <<>>)]

\* A plausible slip: the unresolved account is handled as login_required
\* handles it.
admin_required_clears_unresolved(sess, tbl, ok) ==
    LET user == get_current_user(sess, tbl, ok)
    IN  IF "user_id" \notin DOMAIN sess
        THEN [run |-> FALSE, session |-> sess,
              out |-> Redirect("login", <<"Please log in to access this page.">>)]
        ELSE IF IsNone(user)
        THEN [run |-> FALSE, session |-> EmptySession,
              out |-> Redirect("login", <<"Session expired. Please log in again.">>)]
        ELSE IF ~user.is_admin
        THEN [run |-> FALSE, session |-> sess,
              out |-> Redirect("index", <<"Admin access required.">>)]
        ELSE [run |-> TRUE, session |-> sess, out |-> Render("", <<>>)]

admin_required(sess, tbl, ok) ==
    LET user == get_current_user(sess, tbl, ok)
    IN  IF "user_id" \notin DOMAIN sess
        THEN [run |-> FALSE, session |-> sess,
              out |-> Redirect("login", <<"Please log in to access this page.">>)]
        ELSE IF IsNone(user) \/ ~user.is_admin
        THEN [run |-> FALSE, session |-> sess,
              out |-> Redirect("index", <<"Admin access required.">>)]
        ELSE [run |-> TRUE, session |-> sess, out |-> Render("", <<>>)]

\* ------------------------------------------------------------------ inputs
\* The password of the specification's scenario, another strong one, and a
\* weak one.
PwAbc12345 == <<"A", "b", "c", "1", "2", "3", "4", "5", "!">>
PwXyz == <<"X", "b", "c", "9", "8", "7", "6", "5", "@">>
PwWeak == <<"a", "b", "c">>

\* The deployments: ADMIN_EMAIL / ADMIN_PASSWORD unset (os.getenv's default
\* '') or both set.
Environments ==
    {[ADMIN_EMAIL |-> <<>>, ADMIN_PASSWORD |-> <<>>],
     [ADMIN_EMAIL |-> <<"S", " ">>, ADMIN_PASSWORD |-> PwWeak]}

\* The client has no request between two store calls.
NoRequest == [op |-> "", pc |-> ""]
\* The <user_id> of the accounts that requests running side by side act on.
RaceTargets == {UserId(n) : n \in 0..MaxRaceRegistrations}

\* No call of validate_password_strength is being looked at.
NoCall == [password |-> <<>>, done |-> FALSE, errors |-> <<>>]

\* The administrator's record, which no route of the application creates:
\* it is inserted in the table by the operator, who sets is_admin; nothing
\* approves it, which is why both guards exempt admins from approval.
SeedAdmin(approved) ==
    [id |-> UserId(0), email |-> <<"a">>,
     password_hash |-> generate_password_hash(PwAbc12345),
     is_admin |-> TRUE, is_approved |-> approved, is_active |-> TRUE,
     approved_at |-> NoTime, approved_by |-> NoId]

Init ==
    /\ users = [i \in {UserId(0)} |-> SeedAdmin(FALSE)]
    /\ issued = 0
    /\ enabled \in BOOLEAN
    /\ env \in Environments
    /\ session = [c \in Clients |-> EmptySession]
    /\ resp = Idle
    /\ checked = NoCall
    /\ inflight = [c \in Clients |-> NoRequest]
    /\ flips = [u \in RaceTargets |-> 0]

\* The response to the request `op` of client c; `ran` tells whether the
\* route's own handler was entered (behind a guard: whether the guard let it).
Respond(c, op, ran, out) ==
    resp' = [c |-> c, op |-> op, ran |-> ran, out |-> out]

SetSession(c, sess) == session' = [session EXCEPT ![c] = sess]

\* ------------------------------------------------------------------ app.py
\* GET /
index(c, ok1, ok2) ==
    LET g == login_required(session[c], users, ok1)
        user == get_current_user(session[c], users, ok2)
    IN  /\ SetSession(c, g.session)
        /\ Respond(c, "index", g.run,
                   IF g.run THEN Render("index.html", <<>>) ELSE g.out)
        /\ UNCHANGED <<users, issued, enabled, env, checked, inflight, flips>>

\* GET /api/current-user
api_current_user(c, ok1, ok2) ==
    LET g == login_required(session[c], users, ok1)
        user == get_current_user(session[c], users, ok2)
    IN  /\ SetSession(c, g.session)
        /\ Respond(c, "api_current_user", g.run,
                   IF ~g.run THEN g.out
                   ELSE IF IsNone(user) THEN Json("401") ELSE Json("200"))
        /\ UNCHANGED <<users, issued, enabled, env, checked, inflight, flips>>

\* A plausible slip: the strength of the password is not checked.
RegisterPost_without_strength_check(form, gst_valid, ok_lookup, ok_create) ==
    LET email == NormalizeEmail(form.email)
        existing == get_user_by_email_any(users, email, ok_lookup)
        user_id == UserId(issued + 1)
        user_data == [id |-> user_id, email |-> email,
                      password_hash |-> generate_password_hash(form.password),
                      is_admin |-> FALSE, is_approved |-> FALSE, is_active |-> TRUE,
                      approved_at |-> NoTime, approved_by |-> NoId]
        created == create_user_profile(users, user_id, user_data, ok_create)
    IN  IF \/ email = <<>> \/ form.password = <<>>
           \/ \E f \in {"business_name", "business_address", "owner_name", "mobile"} :
                Strip(form.details[f]) = <<>>
        THEN [tbl |-> users,
              out |-> Render("register.html", <<"All fields except GST number are required.">>)]
        ELSE IF form.password # form.confirm_password
        THEN [tbl |-> users, out |-> Render("register.html", <<"Passwords do not match.">>)]
        ELSE IF Strip(form.gst_number) # <<>> /\ ~gst_valid
        THEN [tbl |-> users, out |-> Render("register.html", <<"GST Verification Failed">>)]
        ELSE IF ~IsNone(existing)
        THEN [tbl |-> users, out |-> Render("register.html", <<"Email already registered.">>)]
        ELSE IF ~enabled
        THEN [tbl |-> users,
              out |-> Render("register.html",
                             <<"Registration currently unavailable (Supabase not configured).">>)]
        ELSE IF created.raised
        THEN [tbl |-> users, out |-> Render("register.html", <<"Registration failed">>)]
        ELSE [tbl |-> created.tbl,
              out |-> Redirect("login",
                               <<"Registration successful! Please wait for admin approval.">>)]

\* What register() decides from the form: the response and, when the
\* record is to be created, the record.
RegisterPost(form, gst_valid, ok_lookup, ok_create) ==
    LET email == NormalizeEmail(form.email)
        pw_errors == validate_password_strength(form.password)
        existing == get_user_by_email_any(users, email, ok_lookup)
        user_id == UserId(issued + 1)
        user_data == [id |-> user_id, email |-> email,
                      password_hash |-> generate_password_hash(form.password),
                      is_admin |-> FALSE, is_approved |-> FALSE, is_active |-> TRUE,
                      approved_at |-> NoTime, approved_by |-> NoId]
        created == create_user_profile(users, user_id, user_data, ok_create)
    IN  IF \/ email = <<>> \/ form.password = <<>>
           \/ \E f \in {"business_name", "business_address", "owner_name", "mobile"} :
                Strip(form.details[f]) = <<>>
        THEN [tbl |-> users,
              out |-> Render("register.html", <<"All fields except GST number are required.">>)]
        ELSE IF form.password # form.confirm_password
        THEN [tbl |-> users, out |-> Render("register.html", <<"Passwords do not match.">>)]
        ELSE IF pw_errors # <<>>
        THEN [tbl |-> users, out |-> Render("register.html", pw_errors)]
        ELSE IF Strip(form.gst_number) # <<>> /\ ~gst_valid
        THEN [tbl |-> users, out |-> Render("register.html", <<"GST Verification Failed">>)]
        ELSE IF ~IsNone(existing)
        THEN [tbl |-> users, out |-> Render("register.html", <<"Email already registered.">>)]
        ELSE IF ~enabled
        THEN [tbl |-> users,
              out |-> Render("register.html",
                             <<"Registration currently unavailable (Supabase not configured).">>)]
        ELSE IF created.raised
        THEN [tbl |-> users, out |-> Render("register.html", <<"Registration failed">>)]
        ELSE [tbl |-> created.tbl,
              out |-> Redirect("login",
                               <<"Registration successful! Please wait for admin approval.">>)]

\* GET or POST /register
register(c, method, form, gst_valid, ok_lookup, ok_create) ==
    LET r == RegisterPost(form, gst_valid, ok_lookup, ok_create)
    IN  /\ UNCHANGED <<session, enabled, env, checked, inflight, flips>>
        /\ IF "user_id" \in DOMAIN session[c]
           THEN /\ Respond(c, "register", FALSE, Redirect("index", <<>>))
                /\ UNCHANGED <<users, issued>>
           ELSE IF method = "GET"
           THEN /\ Respond(c, "register", TRUE, Render("register.html", <<>>))
                /\ UNCHANGED <<users, issued>>
           ELSE /\ r.tbl # users => issued < MaxRegistrations
                /\ users' = r.tbl
                \* an identifier that never reaches the store is never seen again
                /\ issued' = IF r.tbl # users THEN issued + 1 ELSE issued
                /\ Respond(c, "register", TRUE, r.out)

\* A plausible slip: the configured password is not compared.
super_admin_matches_email_only(email, password) ==
    /\ env.ADMIN_EMAIL # <<>> /\ env.ADMIN_PASSWORD # <<>>
    /\ email = NormalizeEmail(env.ADMIN_EMAIL)

\* login()'s test for the "Super Admin" of the environment variables
super_admin_matches(email, password) ==
    LET env_admin_email == env.ADMIN_EMAIL
        env_admin_password == env.ADMIN_PASSWORD
    IN  /\ env_admin_email # <<>> /\ env_admin_password # <<>>
        /\ email = NormalizeEmail(env_admin_email)
        /\ password = env_admin_password

\* A plausible slip: the is_active test is missing.
LoginPost_ignores_active(sess, email_raw, password, token, ok_lookup) ==
    LET email == NormalizeEmail(email_raw)
        user == get_user_by_email_any(users, email, ok_lookup)
    IN  IF email = <<>> \/ password = <<>>
        THEN [session |-> sess,
              out |-> Render("login.html", <<"Email and password are required.">>)]
        ELSE IF super_admin_matches(email, password)
        THEN [session |-> SetKey(SetKey(SetKey(sess, "_permanent", TRUE),
                                        "user_id", SuperAdminId(token)),
                                 "is_admin", TRUE),
              out |-> Redirect("index", <<"Welcome back, Super Admin!">>)]
        ELSE IF IsNone(user) \/ ~check_password_hash(user.password_hash, password)
        THEN [session |-> sess,
              out |-> Render("login.html", <<"Invalid email or password.">>)]
        ELSE IF ~user.is_approved /\ ~user.is_admin
        THEN [session |-> SetKey(sess, "user_id", user.id),
              out |-> Redirect("pending_approval", <<>>)]
        ELSE [session |-> SetKey(SetKey(SetKey(sess, "_permanent", TRUE),
                                        "user_id", user.id),
                                 "is_admin", user.is_admin),
              out |-> Redirect("index", <<"Welcome back">>)]

\* A plausible slip: the account's state is tested before the password.
LoginPost_tests_active_first(sess, email_raw, password, token, ok_lookup) ==
    LET email == NormalizeEmail(email_raw)
        user == get_user_by_email_any(users, email, ok_lookup)
    IN  IF email = <<>> \/ password = <<>>
        THEN [session |-> sess,
              out |-> Render("login.html", <<"Email and password are required.">>)]
        ELSE IF super_admin_matches(email, password)
        THEN [session |-> SetKey(SetKey(SetKey(sess, "_permanent", TRUE),
                                        "user_id", SuperAdminId(token)),
                                 "is_admin", TRUE),
              out |-> Redirect("index", <<"Welcome back, Super Admin!">>)]
        ELSE IF IsNone(user)
        THEN [session |-> sess,
              out |-> Render("login.html", <<"Invalid email or password.">>)]
        ELSE IF ~user.is_active
        THEN [session |-> sess,
              out |-> Render("login.html", <<"Your account has been deactivated.">>)]
        ELSE IF ~check_password_hash(user.password_hash, password)
        THEN [session |-> sess,
              out |-> Render("login.html", <<"Invalid email or password.">>)]
        ELSE IF ~user.is_approved /\ ~user.is_admin
        THEN [session |-> SetKey(sess, "user_id", user.id),
              out |-> Redirect("pending_approval", <<>>)]
        ELSE [session |-> SetKey(SetKey(SetKey(sess, "_permanent", TRUE),
                                        "user_id", user.id),
                                 "is_admin", user.is_admin),
              out |-> Redirect("index", <<"Welcome back">>)]

\* What login() decides from the form: the session it leaves and the response.
LoginPost(sess, email_raw, password, token, ok_lookup) ==
    LET email == NormalizeEmail(email_raw)
        user == get_user_by_email_any(users, email, ok_lookup)
    IN  IF email = <<>> \/ password = <<>>
        THEN [session |-> sess,
              out |-> Render("login.html", <<"Email and password are required.">>)]
        ELSE IF super_admin_matches(email, password)
        THEN [session |-> SetKey(SetKey(SetKey(sess, "_permanent", TRUE),
                                        "user_id", SuperAdminId(token)),
                                 "is_admin", TRUE),
              out |-> Redirect("index", <<"Welcome back, Super Admin!">>)]
        ELSE IF IsNone(user) \/ ~check_password_hash(user.password_hash, password)
        THEN [session |-> sess,
              out |-> Render("login.html", <<"Invalid email or password.">>)]
        ELSE IF ~user.is_active
        THEN [session |-> sess,
              out |-> Render("login.html", <<"Your account has been deactivated.">>)]
        ELSE IF ~user.is_approved /\ ~user.is_admin
        THEN [session |-> SetKey(sess, "user_id", user.id),
              out |-> Redirect("pending_approval", <<>>)]
        ELSE [session |-> SetKey(SetKey(SetKey(sess, "_permanent", TRUE),
                                        "user_id", user.id),
                                 "is_admin", user.is_admin),
              out |-> Redirect("index", <<"Welcome back">>)]

\* GET or POST /login
login(c, method, email_raw, password, token, ok_lookup) ==
    LET r == LoginPost(session[c], email_raw, password, token, ok_lookup)
    IN  /\ UNCHANGED <<users, issued, enabled, env, checked, inflight, flips>>
        /\ IF "user_id" \in DOMAIN session[c]
           THEN /\ Respond(c, "login", FALSE, Redirect("index", <<>>))
                /\ UNCHANGED session
           ELSE IF method = "GET"
           THEN /\ Respond(c, "login", TRUE, Render("login.html", <<>>))
                /\ UNCHANGED session
           ELSE /\ SetSession(c, r.session)
                /\ Respond(c, "login", TRUE, r.out)

\* A plausible slip: only the account identifier is discarded.
logout_drops_user_id_only(c) ==
    /\ SetSession(c, [k \in DOMAIN session[c] \ {"user_id"} |-> session[c][k]])
    /\ Respond(c, "logout", TRUE, Redirect("login", <<"You have been logged out.">>))
    /\ UNCHANGED <<users, issued, enabled, env, checked, inflight, flips>>

\* GET /logout
logout(c) ==
    /\ SetSession(c, EmptySession)
    /\ Respond(c, "logout", TRUE, Redirect("login", <<"You have been logged out.">>))
    /\ UNCHANGED <<users, issued, enabled, env, checked, inflight, flips>>

\* GET /pending-approval
pending_approval(c, ok) ==
    LET user == get_current_user(session[c], users, ok)
    IN  /\ Respond(c, "pending_approval", TRUE,
                   IF "user_id" \notin DOMAIN session[c] THEN Redirect("login", <<>>)
                   ELSE IF ~IsNone(user) /\ user.is_approved THEN Redirect("index", <<>>)
                   ELSE Render("pending_approval.html", <<>>))
        /\ UNCHANGED <<users, issued, enabled, env, session, checked, inflight, flips>>

\* The <user_id> a URL of an admin route may carry.
Targets == {UserId(n) : n \in 0..MaxRegistrations}
\* datetime.now().isoformat(), which no handler reads back
Times == {<<"2", "0", "2", "6">>}
\* secrets.token_hex(4)
Tokens == {<<"9", "f", "3", "a">>}

\* GET /admin/dashboard
admin_dashboard(c, ok1, ok2, ok3) ==
    LET g == admin_required(session[c], users, ok1)
        user == get_current_user(session[c], users, ok2)
        all_users == IF enabled THEN list_all_users(users, ok3) ELSE {}
    IN  /\ Respond(c, "admin_dashboard", g.run,
                   IF g.run THEN Render("admin_dashboard.html", <<>>) ELSE g.out)
        /\ SetSession(c, g.session)
        /\ UNCHANGED <<users, issued, enabled, env, checked, inflight, flips>>

\* A plausible slip: the approver is not recorded.
ApproveBody_forgets_approver(sess, user_id, now, ok2, ok3) ==
    LET admin == get_current_user(sess, users, ok2)
        upd == update_user_profile(users, user_id,
                   [is_approved |-> TRUE, approved_at |-> now], ok3)
    IN  IF ~enabled THEN [tbl |-> users, flash |-> <<"Supabase not configured.">>]
        ELSE IF IsNone(admin) \/ upd.raised
        THEN [tbl |-> users, flash |-> <<"Error approving user">>]
        ELSE [tbl |-> upd.tbl, flash |-> <<"User approved successfully.">>]

\* The table and the flashed message an admin handler's try block leaves.
ApproveBody(sess, user_id, now, ok2, ok3) ==
    LET admin == get_current_user(sess, users, ok2)
        upd == update_user_profile(users, user_id,
                   [is_approved |-> TRUE, approved_at |-> now, approved_by |-> admin.id],
                   ok3)
    IN  IF ~enabled THEN [tbl |-> users, flash |-> <<"Supabase not configured.">>]
        \* admin['id'] on None raises TypeError, caught by the handler
        ELSE IF IsNone(admin) \/ upd.raised
        THEN [tbl |-> users, flash |-> <<"Error approving user">>]
        ELSE [tbl |-> upd.tbl, flash |-> <<"User approved successfully.">>]

\* GET /admin/approve/<user_id>
approve_user(c, user_id, now, ok1, ok2, ok3) ==
    LET g == admin_required(session[c], users, ok1)
        b == ApproveBody(session[c], user_id, now, ok2, ok3)
    IN  /\ SetSession(c, g.session)
        /\ UNCHANGED <<issued, enabled, env, checked, inflight, flips>>
        /\ IF g.run
           THEN /\ users' = b.tbl
                /\ Respond(c, "approve_user", TRUE, Redirect("admin_dashboard", b.flash))
           ELSE /\ UNCHANGED users
                /\ Respond(c, "approve_user", FALSE, g.out)

RejectBody(user_id, ok2) ==
    LET del == delete_user_profile(users, user_id, ok2)
    IN  IF ~enabled THEN [tbl |-> users, flash |-> <<"Supabase not configured.">>]
        ELSE [tbl |-> del.tbl, flash |-> <<"User rejected and removed.">>]

\* GET /admin/reject/<user_id>
reject_user(c, user_id, ok1, ok2) ==
    LET g == admin_required(session[c], users, ok1)
        b == RejectBody(user_id, ok2)
    IN  /\ SetSession(c, g.session)
        /\ UNCHANGED <<issued, enabled, env, checked, inflight, flips>>
        /\ IF g.run
           THEN /\ users' = b.tbl
                /\ Respond(c, "reject_user", TRUE, Redirect("admin_dashboard", b.flash))
           ELSE /\ UNCHANGED users
                /\ Respond(c, "reject_user", FALSE, g.out)

\* A plausible slip: the update names the wrong column.
ToggleBody_writes_is_admin(user_id, ok2, ok3) ==
    LET user == get_user_by_id(users, user_id, ok2)
        new_status == ~user.is_active
        upd == update_user_profile(users, user_id, [is_admin |-> new_status], ok3)
    IN  IF ~enabled THEN [tbl |-> users, flash |-> <<"Supabase not configured.">>]
        ELSE IF IsNone(user) THEN [tbl |-> users, flash |-> <<"User not found.">>]
        ELSE IF upd.raised THEN [tbl |-> users, flash |-> <<"Error updating user">>]
        ELSE [tbl |-> upd.tbl,
              flash |-> IF new_status THEN <<"User has been activated.">>
                        ELSE <<"User has been deactivated.">>]

ToggleBody(user_id, ok2, ok3) ==
    LET user == get_user_by_id(users, user_id, ok2)
        new_status == ~user.is_active
        upd == update_user_profile(users, user_id, [is_active |-> new_status], ok3)
    IN  IF ~enabled THEN [tbl |-> users, flash |-> <<"Supabase not configured.">>]
        ELSE IF IsNone(user) THEN [tbl |-> users, flash |-> <<"User not found.">>]
        ELSE IF upd.raised THEN [tbl |-> users, flash |-> <<"Error updating user">>]
        ELSE [tbl |-> upd.tbl,
              flash |-> IF new_status THEN <<"User has been activated.">>
                        ELSE <<"User has been deactivated.">>]

\* GET /admin/toggle-active/<user_id>
toggle_user_active(c, user_id, ok1, ok2, ok3) ==
    LET g == admin_required(session[c], users, ok1)
        b == ToggleBody(user_id, ok2, ok3)
    IN  /\ SetSession(c, g.session)
        /\ UNCHANGED <<issued, enabled, env, checked, inflight, flips>>
        /\ IF g.run
           THEN /\ users' = b.tbl
                /\ Respond(c, "toggle_user_active", TRUE,
                           Redirect("admin_dashboard", b.flash))
           ELSE /\ UNCHANGED users
                /\ Respond(c, "toggle_user_active", FALSE, g.out)

\* A plausible slip: the test of the target's is_admin is missing.
DeleteBody_without_admin_test(user_id, ok2, ok3) ==
    LET user == get_user_by_id(users, user_id, ok2)
        del == delete_user_profile(users, user_id, ok3)
    IN  IF ~enabled THEN [tbl |-> users, flash |-> <<"Supabase not configured.">>]
        ELSE IF IsNone(user) THEN [tbl |-> users, flash |-> <<"User not found.">>]
        ELSE [tbl |-> del.tbl, flash |-> <<"User permanently deleted.">>]

DeleteBody(user_id, ok2, ok3) ==
    LET user == get_user_by_id(users, user_id, ok2)
        del == delete_user_profile(users, user_id, ok3)
    IN  IF ~enabled THEN [tbl |-> users, flash |-> <<"Supabase not configured.">>]
        ELSE IF IsNone(user) THEN [tbl |-> users, flash |-> <<"User not found.">>]
        ELSE IF user.is_admin
        THEN [tbl |-> users, flash |-> <<"Cannot delete admin account.">>]
        ELSE [tbl |-> del.tbl, flash |-> <<"User permanently deleted.">>]

\* GET /admin/delete-user/<user_id>
delete_user(c, user_id, ok1, ok2, ok3) ==
    LET g == admin_required(session[c], users, ok1)
        b == DeleteBody(user_id, ok2, ok3)
    IN  /\ SetSession(c, g.session)
        /\ UNCHANGED <<issued, enabled, env, checked, inflight, flips>>
        /\ IF g.run
           THEN /\ users' = b.tbl
                /\ Respond(c, "delete_user", TRUE, Redirect("admin_dashboard", b.flash))
           ELSE /\ UNCHANGED users
                /\ Respond(c, "delete_user", FALSE, g.out)

\* What admin_profile() decides from the POSTed form: the table, the session
\* and the response.
ProfilePost(sess, form, ok2, ok_lookup, ok_update) ==
    LET user == get_current_user(sess, users, ok2)
        new_email == NormalizeEmail(form.email)
        email_changes == new_email # <<>> /\ new_email # user.email
        existing == get_user_by_email_any(users, new_email, ok_lookup)
        pw_errors == validate_password_strength(form.new_password)
        changes ==
            LET e == IF email_changes THEN {"email"} ELSE {}
                p == IF form.new_password # <<>> THEN {"password_hash"} ELSE {}
            IN  [f \in e \cup p |->
                   IF f = "email" THEN new_email
                   ELSE generate_password_hash(form.new_password)]
        upd == update_user_profile(users, user.id, changes, ok_update)
        same == [tbl |-> users, session |-> sess]
    IN  \* user['password_hash'] on None raises TypeError outside any try
        IF IsNone(user) THEN same @@ [out |-> Unhandled]
        ELSE IF ~check_password_hash(user.password_hash, form.current_password)
        THEN same @@ [out |-> Render("admin_profile.html", <<"Current password is incorrect.">>)]
        ELSE IF email_changes /\ ~IsNone(existing)
        THEN same @@ [out |-> Render("admin_profile.html",
                                     <<"Email already in use by another user.">>)]
        ELSE IF form.new_password # <<>> /\ form.new_password # form.confirm_password
        THEN same @@ [out |-> Render("admin_profile.html", <<"New passwords do not match.">>)]
        ELSE IF form.new_password # <<>> /\ pw_errors # <<>>
        THEN same @@ [out |-> Render("admin_profile.html", pw_errors)]
        ELSE LET done == DOMAIN changes # {} /\ enabled /\ ~upd.raised
                 f1 == IF DOMAIN changes = {} THEN <<>>
                       ELSE IF ~enabled THEN <<"Supabase not configured.">>
                       ELSE IF upd.raised THEN <<"Update failed">>
                       ELSE <<"Profile updated successfully.">>
             IN  IF "email" \in DOMAIN changes
                 THEN [tbl |-> IF done THEN upd.tbl ELSE users,
                       session |-> EmptySession,
                       out |-> Redirect("login",
                                        f1 \o <<"Email updated. Please log in again.">>)]
                 ELSE [tbl |-> IF done THEN upd.tbl ELSE users,
                       session |-> sess,
                       out |-> Redirect("admin_profile", f1)]

\* GET or POST /admin/profile
admin_profile(c, method, form, ok1, ok2, ok_lookup, ok_update) ==
    LET g == admin_required(session[c], users, ok1)
        r == ProfilePost(g.session, form, ok2, ok_lookup, ok_update)
    IN  /\ UNCHANGED <<issued, enabled, env, checked, inflight, flips>>
        /\ IF ~g.run
           THEN /\ SetSession(c, g.session)
                /\ UNCHANGED users
                /\ Respond(c, "admin_profile", FALSE, g.out)
           ELSE IF method = "GET"
           THEN /\ SetSession(c, g.session)
                /\ UNCHANGED users
                /\ Respond(c, "admin_profile", TRUE, Render("admin_profile.html", <<>>))
           ELSE /\ SetSession(c, r.session)
                /\ users' = r.tbl
                /\ Respond(c, "admin_profile", TRUE, r.out)

\* ------------------------------------------------------------------ requests
GoodDetails ==
    [business_name |-> <<"x">>, business_address |-> <<"x">>,
     owner_name |-> <<"x">>, mobile |-> <<"1">>]

RegForm(email, password, confirm_password) ==
    [email |-> email, password |-> password, confirm_password |-> confirm_password,
     details |-> GoodDetails, gst_number |-> <<>>]

\* The registration forms submitted: the scenario's, its variants in the
\* email, and one form per validation rule.
RegisterForms ==
    {RegForm(<<"a">>, PwAbc12345, PwAbc12345),
     RegForm(<<"A", " ">>, PwAbc12345, PwAbc12345),
     RegForm(<<"b">>, PwAbc12345, PwAbc12345),
     RegForm(<<" ">>, PwAbc12345, PwAbc12345),
     RegForm(<<"b">>, <<>>, <<>>),
     RegForm(<<"b">>, PwAbc12345, PwXyz),
     RegForm(<<"b">>, PwWeak, PwWeak),
     [RegForm(<<"b">>, PwAbc12345, PwAbc12345) EXCEPT !.gst_number = <<"x">>],
     [RegForm(<<"b">>, PwAbc12345, PwAbc12345) EXCEPT !.details.owner_name = <<" ">>]}

LoginForms ==
    {[email |-> <<"a">>, password |-> PwAbc12345],
     [email |-> <<"A", " ">>, password |-> PwAbc12345],
     [email |-> <<"a">>, password |-> PwXyz],
     [email |-> <<"b">>, password |-> PwAbc12345],
     [email |-> <<"b">>, password |-> PwXyz],
     [email |-> <<"s">>, password |-> PwWeak],
     [email |-> <<"S">>, password |-> PwWeak],
     [email |-> <<"s">>, password |-> PwAbc12345],
     [email |-> <<" ">>, password |-> PwWeak],
     [email |-> <<"s">>, password |-> <<>>]}

ProfileForm(email, current_password, new_password, confirm_password) ==
    [email |-> email, current_password |-> current_password,
     new_password |-> new_password, confirm_password |-> confirm_password]

ProfileForms ==
    {ProfileForm(<<>>, PwAbc12345, <<>>, <<>>),
     ProfileForm(<<"b">>, PwAbc12345, <<>>, <<>>),
     ProfileForm(<<"B", " ">>, PwXyz, <<>>, <<>>),
     ProfileForm(<<"a">>, PwAbc12345, <<>>, <<>>),
     ProfileForm(<<"a">>, PwXyz, PwAbc12345, PwAbc12345),
     ProfileForm(<<>>, PwAbc12345, PwXyz, PwXyz),
     ProfileForm(<<>>, PwAbc12345, PwXyz, PwAbc12345),
     ProfileForm(<<"b">>, PwAbc12345, PwWeak, PwWeak)}

Methods == {"GET", "POST"}
\* A GET carries no form.
NoForm == [email |-> <<>>]
\* verify_gst(gst_number)['valid'], asked only for a number that was typed
VerifyGst(form) == IF Strip(form.gst_number) # <<>> THEN BOOLEAN ELSE {FALSE}

\* The outcomes of the store calls a handler makes once its guard let it run.
After(run) == IF run THEN CallResults ELSE {FALSE}
LoggedOut(c) == "user_id" \notin DOMAIN session[c]
AdminGuard(c, ok) == admin_required(session[c], users, ok).run
LoginGuard(c, ok) == login_required(session[c], users, ok).run

\* The response leaves the server; the next request can be taken.
send_response ==
    /\ resp # Idle
    /\ resp' = Idle
    /\ UNCHANGED <<users, issued, enabled, env, session, checked, inflight, flips>>

\* The server handles one request at a time: it takes one from a client
\* when no response is being returned.
Ready == IF resp = Idle THEN Clients ELSE {}

Next ==
    \/ \E c \in Ready, ok1 \in CallResults : \E ok2 \in After(LoginGuard(c, ok1)) :
            index(c, ok1, ok2)
    \/ \E c \in Ready, ok1 \in CallResults : \E ok2 \in After(LoginGuard(c, ok1)) :
            api_current_user(c, ok1, ok2)
    \/ \E c \in Ready :
         \/ register(c, "GET", NoForm, FALSE, FALSE, FALSE)
         \/ \E form \in RegisterForms :
              \E gst_valid \in VerifyGst(form), ok1, ok2 \in After(LoggedOut(c)) :
                register(c, "POST", form, gst_valid, ok1, ok2)
    \/ \E c \in Ready :
         \/ \E t \in Tokens : login(c, "GET", <<>>, <<>>, t, FALSE)
         \/ \E form \in LoginForms, t \in Tokens : \E ok \in After(LoggedOut(c)) :
              login(c, "POST", form.email, form.password, t, ok)
    \/ \E c \in Ready : logout(c)
    \/ \E c \in Ready, ok \in CallResults : pending_approval(c, ok)
    \/ \E c \in Ready, ok1 \in CallResults : \E ok2, ok3 \in After(AdminGuard(c, ok1)) :
            admin_dashboard(c, ok1, ok2, ok3)
    \/ \E c \in Ready, u \in Targets, now \in Times, ok1 \in CallResults :
         \E ok2, ok3 \in After(AdminGuard(c, ok1)) :
            approve_user(c, u, now, ok1, ok2, ok3)
    \/ \E c \in Ready, u \in Targets, ok1 \in CallResults :
         \E ok2 \in After(AdminGuard(c, ok1)) :
            reject_user(c, u, ok1, ok2)
    \/ \E c \in Ready, u \in Targets, ok1 \in CallResults :
         \E ok2, ok3 \in After(AdminGuard(c, ok1)) :
            toggle_user_active(c, u, ok1, ok2, ok3)
    \/ \E c \in Ready, u \in Targets, ok1 \in CallResults :
         \E ok2, ok3 \in After(AdminGuard(c, ok1)) :
            delete_user(c, u, ok1, ok2, ok3)
    \/ \E c \in Ready, ok1 \in CallResults :
         \/ admin_profile(c, "GET", NoForm, ok1, FALSE, FALSE, FALSE)
         \/ \E form \in ProfileForms : \E ok2, ok3, ok4 \in After(AdminGuard(c, ok1)) :
              admin_profile(c, "POST", form, ok1, ok2, ok3, ok4)
    \/ send_response

Spec == Init /\ [][Next]_vars

\* ------------------------------------------------------------------ claims
\* The routes behind each decorator.
LoginGuarded == {"index", "api_current_user"}
AdminGuarded == {"admin_dashboard", "approve_user", "reject_user",
                 "toggle_user_active", "delete_user", "admin_profile"}

HasUserId(sess) == "user_id" \in DOMAIN sess
\* The session names a record of the table.
Stored(sess) == HasUserId(sess) /\ sess["user_id"] \in DOMAIN users
Account(sess) == users[sess["user_id"]]
IsSuperAdminSession(sess) == HasUserId(sess) /\ sess["user_id"][1] = "superadmin_"

\* A request of client c to a route behind login_required, whose lookup of
\* the session's account has the outcome ok.
LoginGuardedStep(c, ok) ==
    /\ resp = Idle
    /\ resp'.c = c
    /\ \/ /\ resp'.op = "index"
          /\ \E ok2 \in BOOLEAN : index(c, ok, ok2)
       \/ /\ resp'.op = "api_current_user"
          /\ \E ok2 \in BOOLEAN : api_current_user(c, ok, ok2)

\* A request of client c to a route behind admin_required, whose lookup of
\* the session's account has the outcome ok.
AdminGuardedStep(c, ok) ==
    /\ resp = Idle
    /\ resp'.c = c
    /\ \/ /\ resp'.op = "admin_dashboard"
          /\ \E ok2, ok3 \in BOOLEAN : admin_dashboard(c, ok, ok2, ok3)
       \/ /\ resp'.op = "approve_user"
          /\ \E u \in Targets, now \in Times, ok2, ok3 \in BOOLEAN :
               approve_user(c, u, now, ok, ok2, ok3)
       \/ /\ resp'.op = "reject_user"
          /\ \E u \in Targets, ok2 \in BOOLEAN : reject_user(c, u, ok, ok2)
       \/ /\ resp'.op = "toggle_user_active"
          /\ \E u \in Targets, ok2, ok3 \in BOOLEAN : toggle_user_active(c, u, ok, ok2, ok3)
       \/ /\ resp'.op = "delete_user"
          /\ \E u \in Targets, ok2, ok3 \in BOOLEAN : delete_user(c, u, ok, ok2, ok3)
       \/ /\ resp'.op = "admin_profile"
          /\ \E m \in Methods, form \in ProfileForms, ok2, ok3, ok4 \in BOOLEAN :
               admin_profile(c, m, form, ok, ok2, ok3, ok4)

\* A request of client c to one of the routes `ops`.
RequestTo(c, ops) == resp = Idle /\ resp'.c = c /\ resp'.op \in ops

RedirectedTo(r, endpoint) == r.out.kind = "redirect" /\ r.out.to = endpoint

\* C1: login_required decides in this order: no user_id -> login, session
\* kept; account not resolved -> session cleared, login; resolved, neither
\* approved nor admin -> pending-approval, session kept; resolved, inactive
\* -> session cleared, login; otherwise the handler runs.
C1_Expected(c, ok) ==
    LET sess == session[c]
        resolved == ok /\ Stored(sess)
    IN  IF ~HasUserId(sess)
        THEN ~resp'.ran /\ RedirectedTo(resp', "login") /\ session'[c] = sess
        ELSE IF ~resolved
        THEN ~resp'.ran /\ RedirectedTo(resp', "login") /\ session'[c] = EmptySession
        ELSE IF ~Account(sess).is_approved /\ ~Account(sess).is_admin
        THEN ~resp'.ran /\ RedirectedTo(resp', "pending_approval") /\ session'[c] = sess
        ELSE IF ~Account(sess).is_active
        THEN ~resp'.ran /\ RedirectedTo(resp', "login") /\ session'[c] = EmptySession
        ELSE resp'.ran /\ resp'.out.kind # "redirect" /\ session'[c] = sess

C1_LoginRequiredOutcome ==
    [][\A c \in Clients, ok \in CallResults :
         LoginGuardedStep(c, ok) => C1_Expected(c, ok)]_vars

\* An approved, deactivated account was turned away and its session cleared.
C1_Witness ==
    /\ resp.op = "index" /\ ~resp.ran
    /\ resp.out.flash = <<"Your account has been deactivated.">>
    /\ session[resp.c] = EmptySession

\* C2: a session that resolves to an account with is_active false never
\* gets a handler behind either guard, whatever is_approved and is_admin
\* are, and the guard leaves the session without user_id.
C2_InactiveFailsBothGuards ==
    [][\A c \in Clients :
         /\ LoginGuardedStep(c, TRUE) \/ AdminGuardedStep(c, TRUE)
         /\ Stored(session[c])
         /\ ~Account(session[c]).is_active
         => ~resp'.ran /\ ~HasUserId(session'[c])]_vars

\* C3: a handler behind admin_required runs only for a session whose
\* user_id is the id of a stored record with is_admin; a session of a stored
\* non-admin record is sent to the home view with its session unchanged.
C3_AdminOnly ==
    [][\A c \in Clients :
         RequestTo(c, AdminGuarded) =>
           /\ resp'.ran => Stored(session[c]) /\ Account(session[c]).is_admin
           /\ Stored(session[c]) /\ ~Account(session[c]).is_admin =>
                /\ ~resp'.ran
                /\ RedirectedTo(resp', "index")
                /\ session'[c] = session[c]]_vars

\* A session whose own is_admin flag is set was refused an admin route.
C3_Witness ==
    /\ resp.op \in AdminGuarded /\ ~resp.ran
    /\ "is_admin" \in DOMAIN session[resp.c]
    /\ session[resp.c]["is_admin"]

\* C4 as claimed: admin_required treats a user_id that names no stored
\* record as login_required does: it clears the session and redirects to
\* login (and with no user_id redirects to login, session unchanged).
C4_AsClaimed ==
    [][\A c \in Clients :
         RequestTo(c, AdminGuarded) =>
           /\ ~HasUserId(session[c]) =>
                RedirectedTo(resp', "login") /\ session'[c] = session[c]
           /\ HasUserId(session[c]) /\ ~Stored(session[c]) =>
                RedirectedTo(resp', "login") /\ session'[c] = EmptySession]_vars

\* C4, amended: with no user_id admin_required redirects to login, session
\* unchanged, as login_required does; with a user_id that names no stored
\* record it redirects to the home view and leaves the session unchanged.
C4_AdminRequiredUnresolved ==
    [][\A c \in Clients :
         RequestTo(c, AdminGuarded) =>
           /\ ~HasUserId(session[c]) =>
                ~resp'.ran /\ RedirectedTo(resp', "login") /\ session'[c] = session[c]
           /\ HasUserId(session[c]) /\ ~Stored(session[c]) =>
                ~resp'.ran /\ RedirectedTo(resp', "index") /\ session'[c] = session[c]]_vars

\* A session naming no stored record was sent home by admin_required and
\* still holds its user_id.
C4_Witness ==
    /\ resp.op \in AdminGuarded /\ ~resp.ran
    /\ HasUserId(session[resp.c]) /\ ~Stored(session[resp.c])
    /\ RedirectedTo(resp, "index")

\* C5: whoever login_required or login sends to the pending-approval view
\* is not an admin: an account with is_admin is never sent there, whatever
\* its is_approved.
C5_AdminNeverPending ==
    resp.op \in LoginGuarded \cup {"login"} /\ RedirectedTo(resp, "pending_approval")
        => Stored(session[resp.c]) /\ ~Account(session[resp.c]).is_admin

\* An admin whose is_approved is false got through login_required.
C5_Witness ==
    /\ resp.op \in LoginGuarded /\ resp.ran
    /\ Account(session[resp.c]).is_admin
    /\ ~Account(session[resp.c]).is_approved

\* The account is waiting for approval (PENDING_APPROVAL).
Pending(user) == ~user.is_approved /\ ~user.is_admin

\* The stored records whose email is the one typed in the form.
ByEmail(email_raw) == {i \in DOMAIN users : users[i].email = Lower(Strip(email_raw))}

\* Both environment credentials are set and the form repeats them: the
\* email up to case and surrounding blanks, the password exactly.
SuperAdminCredentials(form) ==
    /\ env.ADMIN_EMAIL # <<>> /\ env.ADMIN_PASSWORD # <<>>
    /\ Lower(Strip(form.email)) = Lower(Strip(env.ADMIN_EMAIL))
    /\ form.password = env.ADMIN_PASSWORD

\* A login POST of a logged-out client c with the form, whose store lookup
\* has the outcome ok.
LoginStep(c, form, ok) ==
    /\ resp = Idle /\ resp'.c = c /\ resp'.op = "login"
    /\ ~HasUserId(session[c])
    /\ \E t \in Tokens : login(c, "POST", form.email, form.password, t, ok)

RegistrationSucceeded(r) ==
    /\ r.op = "register"
    /\ r.out = Redirect("login", <<"Registration successful! Please wait for admin approval.">>)

\* C6: the lifecycle in order.  (a) A successful registration leaves a new
\* pending account; (b) while an account is pending no request of its
\* session reaches a handler behind login_required, and its login ends on
\* the pending view; (c) an approval by an admin sets is_approved and the
\* approval timestamp; (d) a login with the correct credentials of the
\* approved, active, non-admin account sets the session's user_id to it and
\* the admin flag to false, and the session passes login_required;
\* (e) once the account is deactivated the next request of the session
\* behind login_required is turned away and the session cleared.
C6_Lifecycle ==
    [][\A c \in Clients :
         /\ RequestTo(c, {"register"}) /\ RegistrationSucceeded(resp') =>
              \E id \in DOMAIN users' \ DOMAIN users : Pending(users'[id])
         /\ \A ok \in BOOLEAN :
              LoginGuardedStep(c, ok) /\ Stored(session[c]) /\ Pending(Account(session[c]))
                => ~resp'.ran
         /\ RequestTo(c, {"login"}) /\ ~RedirectedTo(resp', "pending_approval") =>
              \A form \in LoginForms, ok \in BOOLEAN :
                 LoginStep(c, form, ok)
                   => ~(Stored(session'[c]) /\ Pending(Account(session'[c])))
         /\ \A u \in DOMAIN users :
              /\ RequestTo(c, {"approve_user"})
              /\ resp'.out.flash = <<"User approved successfully.">>
              /\ \E now \in Times, ok2, ok3 \in BOOLEAN : approve_user(c, u, now, TRUE, ok2, ok3)
              => users'[u].is_approved /\ users'[u].approved_at \in Times
         /\ RequestTo(c, {"login"}) =>
              \A form \in LoginForms, id \in DOMAIN users :
                 /\ ~SuperAdminCredentials(form)
                 /\ ByEmail(form.email) = {id}
                 /\ check_password_hash(users[id].password_hash, form.password)
                 /\ users[id].is_approved /\ users[id].is_active /\ ~users[id].is_admin
                 /\ LoginStep(c, form, TRUE)
                 => /\ HasUserId(session'[c]) /\ session'[c]["user_id"] = id
                    /\ session'[c]["is_admin"] = FALSE
         /\ /\ LoginGuardedStep(c, TRUE) /\ Stored(session[c])
            /\ Account(session[c]).is_approved /\ Account(session[c]).is_active
            => resp'.ran
         /\ \A ok \in BOOLEAN :
              /\ LoginGuardedStep(c, ok) /\ Stored(session[c])
              /\ Account(session[c]).is_approved /\ ~Account(session[c]).is_active
              => ~resp'.ran /\ session'[c] = EmptySession]_vars

\* The end of the scenario: the registered account was approved, then
\* deactivated, and its session was turned away and cleared.
C6_Witness ==
    /\ resp.op \in LoginGuarded /\ ~resp.ran
    /\ resp.out.flash = <<"Your account has been deactivated.">>
    /\ session[resp.c] = EmptySession
    /\ UserId(0) \in DOMAIN users /\ users[UserId(0)].is_active
    /\ \E id \in DOMAIN users :
         /\ ~users[id].is_admin /\ users[id].is_approved /\ ~users[id].is_active
         /\ users[id].approved_at \in Times

\* C7: for a login form with an email and a password, submitted by a
\* logged-out client: the session gets a 'superadmin_' identifier and the
\* admin flag exactly when both environment credentials are set and the
\* form repeats them, whether or not the store answers; otherwise the
\* outcome is one of the credential-store check and no such identifier
\* is minted.
C7_SuperAdminLogin ==
    [][\A c \in Clients : RequestTo(c, {"login"}) =>
       \A form \in LoginForms, ok \in BOOLEAN :
         /\ Strip(form.email) # <<>> /\ form.password # <<>>
         /\ LoginStep(c, form, ok)
         => IF SuperAdminCredentials(form)
            THEN /\ IsSuperAdminSession(session'[c])
                 /\ session'[c]["is_admin"] = TRUE
                 /\ RedirectedTo(resp', "index")
            ELSE /\ ~IsSuperAdminSession(session'[c])
                 /\ \/ resp'.out = Render("login.html", <<"Invalid email or password.">>)
                    \/ resp'.out = Render("login.html", <<"Your account has been deactivated.">>)
                    \/ RedirectedTo(resp', "pending_approval") /\ Stored(session'[c])
                    \/ RedirectedTo(resp', "index") /\ Stored(session'[c])]_vars

\* A super-admin session was established although the store is not even
\* configured.
C7_Witness ==
    /\ resp.op = "login" /\ RedirectedTo(resp, "index")
    /\ IsSuperAdminSession(session[resp.c])
    /\ ~enabled

\* C8: every request of a session established by a super-admin login, to
\* a route behind login_required or admin_required, reaches its handler.
C8_SuperAdminPassesGuards ==
    [][\A c \in Clients :
         /\ IsSuperAdminSession(session[c])
         /\ LoginGuardedStep(c, TRUE) \/ AdminGuardedStep(c, TRUE)
         => resp'.ran]_vars

\* C9: no two stored accounts have the same case-folded email.
C9_EmailUnique ==
    \A i, j \in DOMAIN users :
        i # j => Lower(users[i].email) # Lower(users[j].email)

\* C10: a registration request leaves every session as it was; either it
\* succeeds, and then the store gains exactly one record, with is_admin and
\* is_approved false, and the client still has no session; or it does not,
\* and then the store is unchanged.
C10_RegisterAllOrNothing ==
    [][\A c \in Clients :
         RequestTo(c, {"register"}) =>
           /\ session' = session
           /\ IF RegistrationSucceeded(resp')
              THEN /\ ~HasUserId(session'[c])
                   /\ \E id \in DOMAIN users' \ DOMAIN users :
                        /\ DOMAIN users' = DOMAIN users \cup {id}
                        /\ \A i \in DOMAIN users : users'[i] = users[i]
                        /\ users'[id].id = id
                        /\ ~users'[id].is_admin /\ ~users'[id].is_approved
              ELSE users' = users]_vars

\* A registration succeeded: the new record is pending and the client has
\* no session.
C10_Witness ==
    /\ RegistrationSucceeded(resp)
    /\ ~HasUserId(session[resp.c])
    /\ \E id \in DOMAIN users : Pending(users[id]) /\ users[id].approved_at = NoTime

\* ------------------------------------------------------------------ C11
\* The table without the record of user_id.
Without(tbl, user_id) == [i \in DOMAIN tbl \ {user_id} |-> tbl[i]]

\* A request of client c to delete_user for target u that passed
\* admin_required, whose lookup of the target and whose delete call have the
\* outcomes ok2 and ok3.
DeleteStep(c, u, ok2, ok3) ==
    /\ RequestTo(c, {"delete_user"}) /\ resp'.ran
    /\ delete_user(c, u, TRUE, ok2, ok3)

Forbidden(r) == r.out = Redirect("admin_dashboard", <<"Cannot delete admin account.">>)

PasswordChars == {"a", "A", "1", "!", " "}

RECURSIVE Repeat(_, _)
Repeat(ch, n) == IF n = 0 THEN <<>> ELSE <<ch>> \o Repeat(ch, n - 1)

RECURSIVE Strings(_)
\* The strings over PasswordChars of length at most n.
Strings(n) ==
    IF n = 0 THEN {<<>>}
    ELSE Strings(n - 1)
           \cup {s \o <<ch>> : s \in {t \in Strings(n - 1) : Len(t) = n - 1},
                               ch \in PasswordChars}

Passwords == {Repeat("a", n) \o core : n \in 0..MaxPad, core \in Strings(MaxCoreLen)}

InitPassword ==
    /\ users = [i \in {UserId(0)} |-> SeedAdmin(FALSE)]
    /\ issued = 0
    /\ enabled = FALSE
    /\ env = [ADMIN_EMAIL |-> <<>>, ADMIN_PASSWORD |-> <<>>]
    /\ session = [c \in Clients |-> EmptySession]
    /\ resp = Idle
    /\ inflight = [c \in Clients |-> NoRequest]
    /\ flips = [u \in RaceTargets |-> 0]
    /\ \E password \in Passwords :
         checked = [password |-> password, done |-> FALSE, errors |-> <<>>]

call_validate_password_strength ==
    /\ ~checked.done
    /\ checked' = [checked EXCEPT !.done = TRUE,
                                  !.errors = validate_password_strength(checked.password)]
    /\ UNCHANGED <<users, issued, enabled, env, session, resp, inflight, flips>>

SpecPassword == InitPassword /\ [][call_validate_password_strength]_vars

Reported(err) == \E i \in 1..Len(checked.errors) : checked.errors[i] = err
NoCharOf(class) == \A i \in 1..Len(checked.password) : checked.password[i] \notin class

\* C12: the list validate_password_strength returns holds the length error
\* iff the password has fewer than 8 characters, the uppercase error iff it
\* has no uppercase letter, the digit error iff it has no digit, the
\* special-character error iff it has no character of the symbol/whitespace
\* set, and nothing else; it is empty iff all four rules are met.
C12_EveryUnmetRuleReported ==
    checked.done =>
      /\ Reported(ErrLength) <=> Len(checked.password) < 8
      /\ Reported(ErrUpper) <=> NoCharOf({"A", "B", "S", "X"})
      /\ Reported(ErrDigit) <=> NoCharOf(DigitChars)
      /\ Reported(ErrSpecial) <=> NoCharOf(SpecialChars)
      /\ \A i \in 1..Len(checked.errors) :
           checked.errors[i] \in {ErrLength, ErrUpper, ErrDigit, ErrSpecial}
      /\ checked.errors = <<>> <=>
           /\ Len(checked.password) >= 8
           /\ ~NoCharOf({"A", "B", "S", "X"})
           /\ ~NoCharOf(DigitChars)
           /\ ~NoCharOf(SpecialChars)

\* A password of eight characters with a digit, without uppercase letter
\* and without special character: two errors, neither of them the first rule's.
C12_Witness ==
    /\ checked.done
    /\ Len(checked.password) = 8
    /\ checked.errors = <<ErrUpper, ErrSpecial>>

\* ------------------------------------------------------------------ C13
\* A registration POST of the logged-out client c with the form.
RegisterStep(c, form) ==
    /\ RequestTo(c, {"register"}) /\ ~HasUserId(session[c])
    /\ \E gst_valid, ok1, ok2 \in BOOLEAN : register(c, "POST", form, gst_valid, ok1, ok2)

\* The forms of the scenario: password abc, confirmed, every required
\* field present.
AbcForms ==
    {form \in RegisterForms :
        /\ form.password = <<"a", "b", "c">> /\ form.confirm_password = form.password
        /\ NormalizeEmail(form.email) # <<>>
        /\ \A f \in DOMAIN form.details : Strip(form.details[f]) # <<>>}

\* C13 as stated: the registration with password abc returns exactly the
\* three errors of length, uppercase and digit, and persists nothing.
C13_AsClaimed ==
    [][\A c \in Clients, form \in AbcForms :
         RegisterStep(c, form) =>
           /\ resp'.out.flash = <<ErrLength, ErrUpper, ErrDigit>>
           /\ users' = users]_vars

\* C13: the registration with password abc returns exactly four errors
\* (length, uppercase, digit and special character) and persists nothing.
C13_RegisterAbc ==
    [][\A c \in Clients, form \in AbcForms :
         RegisterStep(c, form) =>
           /\ resp'.out = Render("register.html",
                                 <<ErrLength, ErrUpper, ErrDigit, ErrSpecial>>)
           /\ users' = users /\ issued' = issued]_vars

\* The registration with abc was answered, in a deployment whose store
\* would have accepted the record.
C13_Witness ==
    /\ resp.op = "register" /\ resp.ran
    /\ Len(resp.out.flash) = 4 /\ resp.out.flash[1] = ErrLength
    /\ enabled /\ AbcForms # {}
    /\ DOMAIN users = {UserId(0)}

\* ------------------------------------------------------------------ C14
\* The record the store returns for the form's email when the call has the
\* outcome ok: NoUser unless the store is configured, the call answers and
\* exactly one record has the email.
Found(form, ok) ==
    IF enabled /\ ok /\ Cardinality(ByEmail(form.email)) = 1
    THEN users[CHOOSE i \in ByEmail(form.email) : TRUE]
    ELSE NoUser

NotIdentified(sess) == ~HasUserId(sess) /\ "is_admin" \notin DOMAIN sess

\* C14 as stated: a credential-store login leaves the session without
\* account identifier and admin flag whenever the record is absent, the
\* password does not match, the account is inactive, or it is neither
\* approved nor admin; otherwise the session receives both.
C14_AsClaimed ==
    [][\A c \in Clients : RequestTo(c, {"login"}) =>
       \A form \in LoginForms, ok \in BOOLEAN :
         LoginStep(c, form, ok) /\ ~SuperAdminCredentials(form) =>
           LET user == Found(form, ok)
           IN  IF \/ IsNone(user)
                  \/ ~check_password_hash(user.password_hash, form.password)
                  \/ ~user.is_active
                  \/ ~user.is_approved /\ ~user.is_admin
               THEN NotIdentified(session'[c])
               ELSE /\ HasUserId(session'[c]) /\ session'[c]["user_id"] = user.id
                    /\ session'[c]["is_admin"] = user.is_admin]_vars

\* C14: a credential-store login leaves the session as it was, without
\* account identifier and admin flag, when the record is absent, the
\* password does not match (generic failure) or the account is inactive
\* (deactivated message).  For an active account with the right password
\* that is neither approved nor admin it ends in the pending outcome and
\* the session receives the account's identifier, without admin flag.
\* Only when none of these holds does the session receive the identifier
\* and the admin flag, and the response lead to the home view.
C14_LoginOutcome ==
    [][\A c \in Clients : RequestTo(c, {"login"}) =>
       \A form \in LoginForms, ok \in BOOLEAN :
         LoginStep(c, form, ok) /\ ~SuperAdminCredentials(form) =>
           LET user == Found(form, ok)
           IN  IF IsNone(user) \/ ~check_password_hash(user.password_hash, form.password)
               THEN /\ session'[c] = session[c] /\ NotIdentified(session'[c])
                    /\ resp'.out.kind = "render"
                    /\ resp'.out.flash # <<"Your account has been deactivated.">>
               ELSE IF ~user.is_active
               THEN /\ session'[c] = session[c] /\ NotIdentified(session'[c])
                    /\ resp'.out = Render("login.html", <<"Your account has been deactivated.">>)
               ELSE IF ~user.is_approved /\ ~user.is_admin
               THEN /\ RedirectedTo(resp', "pending_approval")
                    /\ session'[c] = SetKey(session[c], "user_id", user.id)
                    /\ "is_admin" \notin DOMAIN session'[c]
               ELSE /\ RedirectedTo(resp', "index")
                    /\ HasUserId(session'[c]) /\ session'[c]["user_id"] = user.id
                    /\ session'[c]["is_admin"] = user.is_admin]_vars

\* A login with the right password of an account awaiting approval: the
\* pending outcome, and the session names the account.
C14_Witness ==
    /\ resp.op = "login" /\ RedirectedTo(resp, "pending_approval")
    /\ Stored(session[resp.c]) /\ Pending(Account(session[resp.c]))
    /\ "is_admin" \notin DOMAIN session[resp.c]

\* ------------------------------------------------------------------ C15
SuperAdminUnset == env.ADMIN_EMAIL = <<>> /\ env.ADMIN_PASSWORD = <<>>

GenericFailure(r) == r.out = Render("login.html", <<"Invalid email or password.">>)

\* The form names no stored account, or names stored accounts none of which
\* has the form's password.
UnknownOrWrongPassword(form) ==
    \A id \in ByEmail(form.email) :
        ~check_password_hash(users[id].password_hash, form.password)

\* C15: with the super-admin credentials unset, a login with an email of no
\* stored record and a login with a stored email and a wrong password end
\* alike, in the generic failure with every session unchanged, whatever the
\* stored account's is_active, is_approved and is_admin are.
C15_NoEnumeration ==
    [][\A c \in Clients : RequestTo(c, {"login"}) /\ SuperAdminUnset =>
       \A form \in LoginForms, ok \in BOOLEAN :
         /\ Strip(form.email) # <<>> /\ form.password # <<>>
         /\ UnknownOrWrongPassword(form)
         /\ LoginStep(c, form, ok)
         => GenericFailure(resp') /\ session' = session]_vars

\* The generic failure was returned while the store held a deactivated
\* account whose email a login form names with a wrong password.
C15_Witness ==
    /\ resp.op = "login" /\ GenericFailure(resp) /\ SuperAdminUnset /\ enabled
    /\ \E id \in DOMAIN users : ~users[id].is_active
    /\ \E form \in LoginForms :
         /\ ByEmail(form.email) # {} /\ UnknownOrWrongPassword(form)
         /\ \A id \in ByEmail(form.email) : ~users[id].is_active

\* ------------------------------------------------------------------ C16
Approval(user) == <<user.is_approved, user.approved_at, user.approved_by>>

\* C16: a step changes is_approved, approved_at or approved_by of a stored
\* account only if it is an approve_user request that passed
\* admin_required, and then it sets all three at once: is_approved true,
\* a timestamp, and the identifier of the stored admin account of the
\* requesting session; a new record has none of the three; and in every
\* state an account has is_approved exactly if it has the timestamp and
\* the approver.
C16_ApprovalAtomic ==
    [][/\ \A id \in DOMAIN users \cap DOMAIN users' :
            Approval(users'[id]) # Approval(users[id]) =>
              /\ resp'.op = "approve_user" /\ resp'.ran
              /\ Stored(session[resp'.c]) /\ Account(session[resp'.c]).is_admin
              /\ users'[id].is_approved
              /\ users'[id].approved_at \in Times
              /\ users'[id].approved_by = session[resp'.c]["user_id"]
       /\ \A id \in DOMAIN users' \ DOMAIN users :
            Approval(users'[id]) = <<FALSE, NoTime, NoId>>
       /\ \A id \in DOMAIN users' :
            /\ users'[id].is_approved <=> users'[id].approved_at # NoTime
            /\ users'[id].is_approved <=> users'[id].approved_by # NoId]_vars

\* An admin approved a registered account: the record names the approver.
C16_Witness ==
    /\ resp.op = "approve_user" /\ resp.ran
    /\ resp.out.flash = <<"User approved successfully.">>
    /\ Stored(session[resp.c])
    /\ \E id \in DOMAIN users :
         /\ ~users[id].is_admin
         /\ Approval(users[id]) = <<TRUE, CHOOSE t \in Times : TRUE, session[resp.c]["user_id"]>>

\* ------------------------------------------------------------------ C17
\* A POST of client c to admin_profile with the form that passed
\* admin_required; ok2, ok3, ok4 are the outcomes of the handler's lookup
\* of the account, of its lookup of the new email and of its update.
ProfileStep(c, form, ok2, ok3, ok4) ==
    /\ RequestTo(c, {"admin_profile"}) /\ resp'.ran
    /\ admin_profile(c, "POST", form, TRUE, ok2, ok3, ok4)

\* The form's email, normalised, is the email of another stored account.
EmailUsedByOther(me, form) ==
    /\ NormalizeEmail(form.email) # <<>>
    /\ \E id \in DOMAIN users \ {me} : users[id].email = NormalizeEmail(form.email)

NewPasswordRefused(form) ==
    /\ form.new_password # <<>>
    /\ \/ form.new_password # form.confirm_password
       \/ validate_password_strength(form.new_password) # <<>>

\* C17: admin_profile changes no account but the requester's own; it
\* changes the email or the password hash only if the current password of
\* the form matches the stored hash; and when that password does not match,
\* or the new email is used by another account, or the new password fails
\* the confirmation or the strength policy, the store and the session are
\* left unchanged.
C17_ProfileUpdateGuarded ==
    [][\A c \in Clients : RequestTo(c, {"admin_profile"}) /\ resp'.ran =>
       \A form \in ProfileForms, ok2, ok3, ok4 \in BOOLEAN :
         ProfileStep(c, form, ok2, ok3, ok4) =>
           LET me == session[c]["user_id"]
           IN  /\ DOMAIN users' = DOMAIN users
               /\ \A id \in DOMAIN users \ {me} : users'[id] = users[id]
               /\ users'[me] # users[me] =>
                    check_password_hash(users[me].password_hash, form.current_password)
               /\ \/ ~check_password_hash(users[me].password_hash, form.current_password)
                  \/ EmailUsedByOther(me, form)
                  \/ NewPasswordRefused(form)
                  => users' = users /\ session'[c] = session[c]]_vars

\* ------------------------------------------------------------------ C18
\* C18: an admin_profile request clears the requester's session exactly
\* when it changed the stored email: it clears it if the email was changed,
\* and leaves it as it was if the email was not changed (password-only
\* change, no change, failed update).
C18_ClearedIffEmailChanged ==
    [][\A c \in Clients : RequestTo(c, {"admin_profile"}) /\ resp'.ran =>
       \A form \in ProfileForms, ok2, ok3, ok4 \in BOOLEAN :
         ProfileStep(c, form, ok2, ok3, ok4) =>
           LET me == session[c]["user_id"]
           IN  IF users'[me].email # users[me].email
               THEN session'[c] = EmptySession
               ELSE session'[c] = session[c]]_vars

\* ------------------------------------------------------------------ C19
WriteOps == {"register", "approve_user", "reject_user", "toggle_user_active",
             "delete_user", "admin_profile"}

\* The messages with which the write operations report success.
SuccessFlashes ==
    {"Registration successful! Please wait for admin approval.",
     "User approved successfully.", "User rejected and removed.",
     "User has been activated.", "User has been deactivated.",
     "User permanently deleted.", "Profile updated successfully.",
     "Email updated. Please log in again."}

ReportsSuccess(r) == \E i \in 1..Len(r.out.flash) : r.out.flash[i] \in SuccessFlashes

\* A request of client c to a write operation, let through by its guard,
\* whose insert, update or delete call fails.
FailedWriteStep(c) ==
    /\ RequestTo(c, WriteOps) /\ resp'.ran
    /\ \/ \E form \in RegisterForms, gst_valid, ok1 \in BOOLEAN :
            register(c, "POST", form, gst_valid, ok1, FALSE)
       \/ \E u \in Targets, now \in Times, ok2 \in BOOLEAN :
            approve_user(c, u, now, TRUE, ok2, FALSE)
       \/ \E u \in Targets : reject_user(c, u, TRUE, FALSE)
       \/ \E u \in Targets, ok2 \in BOOLEAN : toggle_user_active(c, u, TRUE, ok2, FALSE)
       \/ \E u \in Targets, ok2 \in BOOLEAN : delete_user(c, u, TRUE, ok2, FALSE)
       \/ \E form \in ProfileForms, ok2, ok3 \in BOOLEAN :
            admin_profile(c, "POST", form, TRUE, ok2, ok3, FALSE)

\* C19: a write operation whose store call fails, or that runs while the
\* store is not configured, leaves the store unchanged and reports no
\* success.
C19_NoSuccessOnFailure ==
    [][\A c \in Clients :
         FailedWriteStep(c) \/ (RequestTo(c, WriteOps) /\ ~enabled)
           => users' = users /\ ~ReportsSuccess(resp')]_vars

\* ------------------------------------------------------------------ C20
\* C20: no request is answered with an unhandled failure.
C20_NoUnhandledFailure == resp.out # Unhandled

\* ------------------------------------------------------------------ C21
\* The session of c names a stored account that is active and approved or
\* admin.
GoodSession(c) ==
    /\ Stored(session[c])
    /\ Account(session[c]).is_active
    /\ Account(session[c]).is_approved \/ Account(session[c]).is_admin

\* What holds of logout and of a logged-out client: logout leaves no
\* session state; without user_id every guarded request is redirected to
\* login; and only a login request gives the session a user_id.
LoggedOutUntilLogin(c) ==
    /\ RequestTo(c, {"logout"}) => session'[c] = EmptySession
    /\ ~HasUserId(session[c]) =>
         /\ \A ok \in BOOLEAN :
              LoginGuardedStep(c, ok) \/ AdminGuardedStep(c, ok) =>
                ~resp'.ran /\ RedirectedTo(resp', "login") /\ session'[c] = session[c]
         /\ HasUserId(session'[c]) =>
              /\ RequestTo(c, {"login"})
              /\ RedirectedTo(resp', "index") \/ RedirectedTo(resp', "pending_approval")

\* C21 as stated: while the account of a session stays resolvable, active
\* and approved or admin, every request behind login_required reaches its
\* handler and nothing but the client's logout changes the session.
C21_AsClaimed ==
    [][\A c \in Clients :
         /\ GoodSession(c) =>
              /\ LoginGuardedStep(c, TRUE) => resp'.ran
              /\ ~RequestTo(c, {"logout"}) /\ ~LoginGuardedStep(c, FALSE)
                   => session'[c] = session[c]
         /\ LoggedOutUntilLogin(c)]_vars

\* C21: while the account of a session stays resolvable, active and
\* approved or admin, every request behind login_required reaches its
\* handler, whatever the number of earlier requests, and the session is
\* changed only by the client's logout and by the client's own
\* admin_profile request, which clears it when an email change was asked
\* for; logout leaves no session state, and then every guarded request is
\* redirected to login until a login request sets user_id again.
C21_SessionsPersist ==
    [][\A c \in Clients :
         /\ GoodSession(c) =>
              /\ LoginGuardedStep(c, TRUE) => resp'.ran
              /\ ~RequestTo(c, {"logout", "admin_profile"}) /\ ~LoginGuardedStep(c, FALSE)
                   => session'[c] = session[c]
              /\ RequestTo(c, {"admin_profile"}) =>
                   \/ session'[c] = session[c]
                   \/ session'[c] = EmptySession /\ RedirectedTo(resp', "login")
         /\ LoggedOutUntilLogin(c)]_vars

\* A session established by login reached a handler behind login_required
\* while the other client, logged out, holds no session state.
C21_Witness ==
    /\ resp.op \in LoginGuarded /\ resp.ran
    /\ GoodSession(resp.c) /\ "_permanent" \in DOMAIN session[resp.c]
    /\ \E c \in Clients \ {resp.c} : session[c] = EmptySession
    /\ \E id \in DOMAIN users : ~users[id].is_admin

\* ------------------------------------------------------------------ C22
\* A request of client c to reject_user for target u that passed
\* admin_required, whose delete call has the outcome ok2.
RejectStep(c, u, ok2) ==
    /\ RequestTo(c, {"reject_user"}) /\ resp'.ran
    /\ reject_user(c, u, TRUE, ok2)

\* C22: reject_user removes only its target, and only when the target is a
\* stored non-admin account that is not approved; applied to an approved
\* account or to an admin account it leaves the store unchanged.
C22_RejectPendingOnly ==
    [][\A c \in Clients, u \in Targets, ok2 \in BOOLEAN :
         RejectStep(c, u, ok2) =>
           IF u \in DOMAIN users /\ ~users[u].is_admin /\ ~users[u].is_approved
           THEN users' \in {users, Without(users, u)}
           ELSE users' = users]_vars

\* ------------------------------------------------------ requests side by side
\* The server handles requests independently: a handler that makes two
\* store calls can be overtaken between them by another request.  Here
\* toggle_user_active and register advance one store call at a time, the
\* store answering every call; inflight[c] is the request of client c, its
\* position `pc` being the store call it makes next.

\* The session login() establishes for the administrator.
AdminSession ==
    SetKey(SetKey(SetKey(EmptySession, "_permanent", TRUE), "user_id", UserId(0)),
           "is_admin", TRUE)

InitInterleaved ==
    /\ users = [i \in {UserId(0)} |-> SeedAdmin(FALSE)]
    /\ issued = 0
    /\ enabled = TRUE
    /\ env = [ADMIN_EMAIL |-> <<>>, ADMIN_PASSWORD |-> <<>>]
    /\ session \in [Clients -> {EmptySession, AdminSession}]
    /\ resp = Idle
    /\ checked = NoCall
    /\ inflight = [c \in Clients |-> NoRequest]
    /\ flips = [u \in RaceTargets |-> 0]

\* The handler of client c's request returns `out`.
Done(c, op, out) ==
    inflight' = [inflight EXCEPT ![c] = [op |-> op, pc |-> "done", out |-> out]]

\* toggle_user_active: the decorator
toggle_begin(c, user_id) ==
    LET g == admin_required(session[c], users, TRUE)
    IN  /\ inflight[c] = NoRequest
        /\ SetSession(c, g.session)
        /\ IF g.run
           THEN inflight' = [inflight EXCEPT ![c] =
                               [op |-> "toggle_user_active", pc |-> "get_user_by_id",
                                user_id |-> user_id]]
           ELSE Done(c, "toggle_user_active", g.out)
        /\ UNCHANGED <<users, issued, enabled, env, resp, checked, flips>>

\* toggle_user_active: user = get_user_by_id(user_id)
toggle_read(c) ==
    LET user == get_user_by_id(users, inflight[c].user_id, TRUE)
    IN  /\ inflight[c].op = "toggle_user_active" /\ inflight[c].pc = "get_user_by_id"
        /\ IF ~enabled
           THEN Done(c, "toggle_user_active",
                     Redirect("admin_dashboard", <<"Supabase not configured.">>))
           ELSE IF IsNone(user)
           THEN Done(c, "toggle_user_active",
                     Redirect("admin_dashboard", <<"User not found.">>))
           ELSE inflight' = [inflight EXCEPT ![c] =
                               [op |-> "toggle_user_active", pc |-> "update_user_profile",
                                user_id |-> inflight[c].user_id, user |-> user]]
        /\ UNCHANGED <<users, issued, enabled, env, session, resp, checked, flips>>

\* A plausible slip: the route deactivates instead of toggling.
toggle_changes_deactivates(user) == [is_active |-> FALSE]

\* new_status = not bool(user['is_active']), from the record read earlier
toggle_changes(user) == [is_active |-> ~user.is_active]

\* toggle_user_active: update_user_profile(user_id, {'is_active': new_status})
toggle_write(c) ==
    LET user_id == inflight[c].user_id
        changes == toggle_changes(inflight[c].user)
        upd == update_user_profile(users, user_id, changes, TRUE)
    IN  /\ inflight[c].op = "toggle_user_active" /\ inflight[c].pc = "update_user_profile"
        /\ users' = upd.tbl
        /\ flips' = IF user_id \in DOMAIN users
                    THEN [flips EXCEPT ![user_id] = 1 - @] ELSE flips
        /\ Done(c, "toggle_user_active",
                Redirect("admin_dashboard",
                         IF changes.is_active THEN <<"User has been activated.">>
                         ELSE <<"User has been deactivated.">>))
        /\ UNCHANGED <<issued, enabled, env, session, resp, checked>>

\* register()'s checks of the form, before any store call: the messages
\* flashed, <<>> when the form passes.
RegisterValidation(form, gst_valid) ==
    IF \/ NormalizeEmail(form.email) = <<>> \/ form.password = <<>>
       \/ \E f \in {"business_name", "business_address", "owner_name", "mobile"} :
            Strip(form.details[f]) = <<>>
    THEN <<"All fields except GST number are required.">>
    ELSE IF form.password # form.confirm_password
    THEN <<"Passwords do not match.">>
    ELSE IF validate_password_strength(form.password) # <<>>
    THEN validate_password_strength(form.password)
    ELSE IF Strip(form.gst_number) # <<>> /\ ~gst_valid
    THEN <<"GST Verification Failed">>
    ELSE <<>>

\* The registrations that run side by side: twice the same email, up to
\* case and blanks, an email already stored, and a form that is refused.
RaceForms ==
    {RegForm(<<"b">>, PwAbc12345, PwAbc12345),
     RegForm(<<"B", " ">>, PwAbc12345, PwAbc12345),
     RegForm(<<"a">>, PwAbc12345, PwAbc12345),
     RegForm(<<"b">>, PwWeak, PwWeak)}

\* register: up to the first store call
register_begin(c, form) ==
    LET errors == RegisterValidation(form, TRUE)
    IN  /\ inflight[c] = NoRequest
        /\ IF "user_id" \in DOMAIN session[c]
           THEN Done(c, "register", Redirect("index", <<>>))
           ELSE IF errors # <<>>
           THEN Done(c, "register", Render("register.html", errors))
           ELSE inflight' = [inflight EXCEPT ![c] =
                               [op |-> "register", pc |-> "get_user_by_email",
                                form |-> form]]
        /\ UNCHANGED <<users, issued, enabled, env, session, resp, checked, flips>>

\* register: existing = _get_user_by_email_any(email)
register_lookup(c) ==
    LET existing == get_user_by_email_any(users, NormalizeEmail(inflight[c].form.email), TRUE)
    IN  /\ inflight[c].op = "register" /\ inflight[c].pc = "get_user_by_email"
        /\ IF ~IsNone(existing)
           THEN Done(c, "register", Render("register.html", <<"Email already registered.">>))
           ELSE inflight' = [inflight EXCEPT ![c] =
                               [op |-> "register", pc |-> "create_user_profile",
                                form |-> inflight[c].form]]
        /\ UNCHANGED <<users, issued, enabled, env, session, resp, checked, flips>>

\* register: create_user_profile(user_id, user_data)
register_create(c) ==
    LET form == inflight[c].form
        user_id == UserId(issued + 1)
        user_data == [id |-> user_id, email |-> NormalizeEmail(form.email),
                      password_hash |-> generate_password_hash(form.password),
                      is_admin |-> FALSE, is_approved |-> FALSE, is_active |-> TRUE,
                      approved_at |-> NoTime, approved_by |-> NoId]
        created == create_user_profile(users, user_id, user_data, TRUE)
    IN  /\ inflight[c].op = "register" /\ inflight[c].pc = "create_user_profile"
        /\ issued < MaxRaceRegistrations
        /\ issued' = issued + 1
        /\ IF ~enabled
           THEN /\ UNCHANGED users
                /\ Done(c, "register",
                        Render("register.html",
                               <<"Registration currently unavailable (Supabase not configured).">>))
           ELSE IF created.raised
           THEN /\ UNCHANGED users
                /\ Done(c, "register", Render("register.html", <<"Registration failed">>))
           ELSE /\ users' = created.tbl
                /\ Done(c, "register",
                        Redirect("login",
                                 <<"Registration successful! Please wait for admin approval.">>))
        /\ UNCHANGED <<enabled, env, session, resp, checked, flips>>

\* The response leaves the server; the client can send its next request.
return_response(c) ==
    /\ inflight[c].pc = "done"
    /\ inflight' = [inflight EXCEPT ![c] = NoRequest]
    /\ UNCHANGED <<users, issued, enabled, env, session, resp, checked, flips>>

NextInterleaved ==
    \/ \E c \in Clients, u \in RaceTargets : toggle_begin(c, u)
    \/ \E c \in Clients : toggle_read(c)
    \/ \E c \in Clients : toggle_write(c)
    \/ \E c \in Clients, form \in RaceForms : register_begin(c, form)
    \/ \E c \in Clients : register_lookup(c)
    \/ \E c \in Clients : register_create(c)
    \/ \E c \in Clients : return_response(c)

SpecInterleaved == InitInterleaved /\ [][NextInterleaved]_vars

\* ------------------------------------------------------------------ C23
\* Client c's toggle request makes its update call in this step.
ToggleWriteStep(c) ==
    /\ inflight[c].op = "toggle_user_active" /\ inflight[c].pc = "update_user_profile"
    /\ inflight'[c].pc = "done"

\* Client c's toggle request reads its target in this step.
ToggleReadStep(c) ==
    /\ inflight[c].op = "toggle_user_active" /\ inflight[c].pc = "get_user_by_id"
    /\ inflight'[c].pc = "update_user_profile"

\* C23 as stated: every account has its original is_active (true) after an
\* even number of toggles and the negation after an odd number, also when
\* toggle requests are interleaved.
C23_AsClaimed ==
    \A u \in DOMAIN users : users[u].is_active <=> flips[u] = 0

\* C23: a toggle reads the target's record and then writes the negation of
\* the is_active it read, changing no other field of the account and no
\* other account; when the stored is_active is still the one it read (no
\* other toggle of the account wrote in between, as when the requests
\* follow one another) the write negates the stored value, so that two
\* such toggles restore it; when another toggle wrote in between, the
\* write repeats that toggle's value instead.
C23_ToggleFlip ==
    [][\A c \in Clients :
         /\ ToggleReadStep(c) =>
              /\ inflight'[c].user = users[inflight[c].user_id]
              /\ users' = users
         /\ ToggleWriteStep(c) =>
              LET u == inflight[c].user_id
                  seen == inflight[c].user.is_active
              IN  /\ DOMAIN users' = DOMAIN users
                  /\ \A i \in DOMAIN users \ {u} : users'[i] = users[i]
                  /\ \A f \in DOMAIN users[u] \ {"is_active"} : users'[u][f] = users[u][f]
                  /\ users'[u].is_active = ~seen
                  /\ IF users[u].is_active = seen
                     THEN users'[u].is_active = ~users[u].is_active
                     ELSE users'[u].is_active = users[u].is_active]_vars

\* Two interleaved toggles of one account were both answered with
\* "deactivated": the account was written twice and is not restored.
C23_Witness ==
    /\ \A c \in Clients :
         /\ inflight[c].op = "toggle_user_active" /\ inflight[c].pc = "done"
         /\ inflight[c].out.flash = <<"User has been deactivated.">>
    /\ \E u \in DOMAIN users : flips[u] = 0 /\ ~users[u].is_active

\* ------------------------------------------------------------------ C24
\* Client c's registration makes its lookup, or its create call, in this step.
RegisterLookupStep(c) ==
    /\ inflight[c].op = "register" /\ inflight[c].pc = "get_user_by_email"
    /\ inflight'[c].pc # "get_user_by_email"

RegisterCreateStep(c) ==
    /\ inflight[c].op = "register" /\ inflight[c].pc = "create_user_profile"
    /\ inflight'[c].pc = "done"

\* C24: the duplicate-email lookup and the create are two store calls and
\* only the lookup reads the emails: a registration is stopped by the
\* lookup exactly when one stored account has its email at that moment
\* (.single() answers for one row only), and its create, whenever it comes, adds a record with that email whatever the
\* store then holds, so that two registrations with the same email that
\* both looked up before either created both create a record.
C24_LookupThenCreate ==
    [][\A c \in Clients :
         /\ RegisterLookupStep(c) =>
              /\ users' = users
              /\ inflight'[c].pc = "create_user_profile"
                   <=> Cardinality(ByEmail(inflight[c].form.email)) # 1
         /\ RegisterCreateStep(c) =>
              /\ RegistrationSucceeded(inflight'[c])
              /\ \E id \in DOMAIN users' \ DOMAIN users :
                   /\ DOMAIN users' = DOMAIN users \cup {id}
                   /\ users'[id].email = NormalizeEmail(inflight[c].form.email)
                   /\ \A i \in DOMAIN users : users'[i] = users[i]]_vars

\* Both clients' registrations were answered with success and the store
\* holds two accounts of the same email.
C24_Witness ==
    /\ \A c \in Clients : inflight[c].pc = "done" /\ RegistrationSucceeded(inflight[c])
    /\ \E i, j \in DOMAIN users : i # j /\ users[i].email = users[j].email

\* ------------------------------------------------------------------ C25
\* C25: whatever the request, every account that stays in the store keeps
\* its identifier and its is_admin flag, and every record added to the
\* store is stored under its own identifier with is_admin false.
C25_IdAndAdminFlagImmutable ==
    [][/\ \A id \in DOMAIN users \cap DOMAIN users' :
            /\ users'[id].id = users[id].id
            /\ users'[id].is_admin = users[id].is_admin
       /\ \A id \in DOMAIN users' \ DOMAIN users :
            /\ users'[id].id = id
            /\ ~users'[id].is_admin
            /\ resp'.op = "register"]_vars

\* The admin's profile update and a toggle both took effect: the admin's
\* record was rewritten and a registered account was deactivated, and both
\* are what they were.
C25_Witness ==
    /\ resp.op = "admin_profile" /\ resp.ran
    /\ \E i \in 1..Len(resp.out.flash) : resp.out.flash[i] = "Profile updated successfully."
    /\ UserId(0) \in DOMAIN users /\ users[UserId(0)].is_admin
    /\ users[UserId(0)].password_hash # generate_password_hash(PwAbc12345)
    /\ \E id \in DOMAIN users : ~users[id].is_admin /\ ~users[id].is_active /\ users[id].id = id

\* ------------------------------------------------------------------ C26
AdminOps == {"approve_user", "reject_user", "toggle_user_active",
             "delete_user", "admin_profile"}

Admins(tbl) == {id \in DOMAIN tbl : tbl[id].is_admin}

\* C26: no request to one of the admin operations removes an admin account:
\* every account with is_admin = true that is in the store before the
\* request is in the store after it.
C26_AdminNeverRemoved ==
    [][\A c \in Clients :
         RequestTo(c, AdminOps) => Admins(users) \subseteq DOMAIN users']_vars

====
